---------------------------- MODULE Spec2Model ----------------------------
(***************************************************************************)
(* Model of bulgaria-freelance-taxes.py: the command-line run (argument    *)
(* parsing, series generation in plot_func, rendering, savefig) and the    *)
(* three functions of the tax model (soc_sec_factor, get_net_company,      *)
(* get_net_individual).                                                    *)
(*                                                                         *)
(* Numbers.  The script computes in Python floats.  The model computes the *)
(* same expressions, in the same order, over exact rationals: a number is  *)
(* <<w, n, d>>, standing for w + n/d with w an integer, 0 <= n < d and     *)
(* gcd(n, d) = 1 (n = 0 gives d = 1).  The mixed form keeps every          *)
(* component small.  Floating-point rounding (about 1e-16 relative) is not *)
(* modelled.                                                               *)
(***************************************************************************)
EXTENDS Integers, Sequences, FiniteSets, TLC

VARIABLES
    pc,            \* where the script is: "parse_args", "plot_func", "render",
                   \* "savefig", "done", "exited"; "calls" in the function harness
    argv,          \* the command line, one field per flag
    args,          \* the namespace parse_args returned, or NoArgs
    exit_code,     \* the process's exit status, or Running
    x,             \* plot_func: the sampled gross values
    y_company,     \* plot_func: the company series
    y_individual,  \* plot_func: the individual series
    title,         \* plt.title's text, as its variable parts
    axis,          \* plt.axis's argument
    files,         \* the output files written
    call,          \* harness: the last call of a tax-model function, with its locals
    prev           \* harness: the call before it

vars == <<pc, argv, args, exit_code, x, y_company, y_individual, title, axis,
          files, call, prev>>

---------------------------------------------------------------------------
(* Exact rational arithmetic standing for Python's float arithmetic.       *)

RECURSIVE Gcd(_, _)
Gcd(a, b) == IF b = 0 THEN a ELSE Gcd(b, a % b)

Lcm(a, b) == (a \div Gcd(a, b)) * b

\* w + n/d for any integers w, n and d > 0, in normal form.
Frac(w, n, d) ==
    LET q == n \div d
        r == n % d
        g == Gcd(d, r)
    IN  <<w + q, r \div g, d \div g>>

RInt(i) == <<i, 0, 1>>

RAdd(a, b) ==
    LET l == Lcm(a[3], b[3])
    IN  Frac(a[1] + b[1], a[2] * (l \div a[3]) + b[2] * (l \div b[3]), l)

RNeg(a) == Frac(-a[1], -a[2], a[3])

RSub(a, b) == RAdd(a, RNeg(b))

RMul(a, b) ==
    RAdd(RAdd(RInt(a[1] * b[1]), Frac(0, a[1] * b[2], b[3])),
         RAdd(Frac(0, b[1] * a[2], a[3]), Frac(0, a[2] * b[2], a[3] * b[3])))

RLe(a, b) ==
    LET l == Lcm(a[3], b[3])
    IN  \/ a[1] < b[1]
        \/ a[1] = b[1] /\ a[2] * (l \div a[3]) <= b[2] * (l \div b[3])

RLt(a, b) == RLe(a, b) /\ a # b

Zero == RInt(0)

\* The decimal literal k/1000.
Milli(k) == Frac(0, k, 1000)

---------------------------------------------------------------------------
(* Module-level constants, lines 29-49.                                    *)

SOCIAL_SECURITY_FACTOR_MAIN == RAdd(Milli(148), Milli(50))
SOCIAL_SECURITY_FACTOR_HEALTH == Milli(80)
INCOME_TAX_FACTOR == Milli(100)
DIVIDEND_TAX_FACTOR == Milli(50)
RECOGNIZED_EXPENSES_INDIVIDUAL == Milli(250)
FIXED_EXPENSES_INDIVIDUAL == RInt(150 + 5)
FIXED_EXPENSES_COMPANY == RInt(150 + 15)

---------------------------------------------------------------------------
(* The tax model, lines 67-114.  The functions read the global args; here  *)
(* it is the parameter a.                                                  *)

\* soc_sec_factor without its test of the flag.
soc_sec_factor_always_health(a) ==
    RAdd(SOCIAL_SECURITY_FACTOR_MAIN, SOCIAL_SECURITY_FACTOR_HEALTH)

soc_sec_factor(a) ==
    IF a.citizen
    THEN RAdd(SOCIAL_SECURITY_FACTOR_MAIN, SOCIAL_SECURITY_FACTOR_HEALTH)
    ELSE SOCIAL_SECURITY_FACTOR_MAIN

\* get_net_company, line by line.
\* Line 78 reading the other base.
company_soc_sec_of_max(a) == RMul(RInt(a.socsec_base_max), soc_sec_factor(a))

company_soc_sec(a) == RMul(RInt(a.socsec_base_min), soc_sec_factor(a))

company_income_tax_base(gross, soc_sec) ==
    RSub(RSub(gross, FIXED_EXPENSES_COMPANY), soc_sec)

company_income_tax(income_tax_base) == RMul(income_tax_base, INCOME_TAX_FACTOR)

\* Line 90 with the social security added instead of deducted.
company_net_plus_soc_sec(gross, soc_sec, income_tax) ==
    RSub(RSub(RAdd(gross, soc_sec), income_tax), FIXED_EXPENSES_COMPANY)

company_net(gross, soc_sec, income_tax) ==
    RSub(RSub(RSub(gross, soc_sec), income_tax), FIXED_EXPENSES_COMPANY)

\* Line 94 with a negative net clamped to zero.
company_return_clamped(net_company) ==
    LET r == RMul(net_company, RSub(RInt(1), DIVIDEND_TAX_FACTOR))
    IN  IF RLt(r, Zero) THEN Zero ELSE r

company_return(net_company) ==
    RMul(net_company, RSub(RInt(1), DIVIDEND_TAX_FACTOR))

\* A call of get_net_company: its argument, its locals and its result.
company_locals(a, gross) ==
    LET soc_sec == company_soc_sec(a)
        income_tax_base == company_income_tax_base(gross, soc_sec)
        income_tax == company_income_tax(income_tax_base)
        net_company == company_net(gross, soc_sec, income_tax)
    IN  [fn |-> "get_net_company", gross |-> gross,
         soc_sec |-> soc_sec, income_tax_base |-> income_tax_base,
         income_tax |-> income_tax, net_company |-> net_company,
         ret |-> company_return(net_company)]

get_net_company(a, gross) == company_locals(a, gross).ret

\* get_net_individual, line by line.
\* Lines 100-102 without the cap, and with the cap applied to every gross.
individual_soc_sec_base_uncapped(a, gross) == gross

individual_soc_sec_base_always_max(a, gross) == RInt(a.socsec_base_max)

individual_soc_sec_base(a, gross) ==
    IF RLt(RInt(a.socsec_base_max), gross)
    THEN RInt(a.socsec_base_max)
    ELSE gross

individual_soc_sec(a, soc_sec_base) == RMul(soc_sec_base, soc_sec_factor(a))

\* Line 108 deducting all but the recognized expenses.
individual_income_tax_base_swapped(gross, soc_sec) ==
    RSub(RMul(gross, RECOGNIZED_EXPENSES_INDIVIDUAL), soc_sec)

individual_income_tax_base(gross, soc_sec) ==
    RSub(RMul(gross, RSub(RInt(1), RECOGNIZED_EXPENSES_INDIVIDUAL)), soc_sec)

individual_income_tax(income_tax_base) ==
    RMul(income_tax_base, INCOME_TAX_FACTOR)

individual_return(gross, soc_sec, income_tax) ==
    RSub(RSub(RSub(gross, soc_sec), income_tax), FIXED_EXPENSES_INDIVIDUAL)

\* A call of get_net_individual: its argument, its locals and its result.
individual_locals(a, gross) ==
    LET soc_sec_base == individual_soc_sec_base(a, gross)
        soc_sec == individual_soc_sec(a, soc_sec_base)
        income_tax_base == individual_income_tax_base(gross, soc_sec)
        income_tax == individual_income_tax(income_tax_base)
    IN  [fn |-> "get_net_individual", gross |-> gross,
         soc_sec_base |-> soc_sec_base, soc_sec |-> soc_sec,
         income_tax_base |-> income_tax_base, income_tax |-> income_tax,
         ret |-> individual_return(gross, soc_sec, income_tax)]

get_net_individual(a, gross) == individual_locals(a, gross).ret

---------------------------------------------------------------------------
(* Argument parsing, lines 51-64.                                          *)

Absent == "absent"        \* a string flag that is not on the command line
NoArgs == [parsed |-> FALSE]
Running == <<>>           \* exit_code while the process runs; <<n>> once it exited
NoCall == [fn |-> "none"]

DEFAULT_GROSS_MIN == 500
DEFAULT_GROSS_MAX == 25000
DEFAULT_OUTPUT == "output.png"

\* --year declared without required=True.
REQUIRED_without_year == {"socsec_base_min", "socsec_base_max"}

\* The flags declared with required=True, and those declared with type=int.
REQUIRED == {"socsec_base_min", "socsec_base_max", "year"}
INT_TYPED == {"socsec_base_min", "socsec_base_max", "gross_min", "gross_max"}

\* An int-typed flag on the command line: not given, given with a value
\* int() rejects, or given with a value int() converts to val.
IntAbsent == [kind |-> "absent", val |-> 0]
NotAnInt == [kind |-> "not an int", val |-> 0]
IntArg(n) == [kind |-> "int", val |-> n]

\* The values given to the flags in the model: two social-security bases
\* (the 2021 values of the help texts) and the highest --gross-max.
LowBase == 650
HighBase == 3000
MaxChartGross == 4000

\* The command lines of the model.
SocSecBaseArgs == {IntAbsent, NotAnInt, IntArg(LowBase), IntArg(HighBase)}
GrossMinArgs == {IntAbsent, NotAnInt, IntArg(0), IntArg(1000)}
GrossMaxArgs == {IntAbsent, NotAnInt, IntArg(1000), IntArg(MaxChartGross)}

ArgvSet ==
    [socsec_base_min : SocSecBaseArgs, socsec_base_max : SocSecBaseArgs,
     year : {Absent, "2021"}, citizen : BOOLEAN,
     gross_min : GrossMinArgs, gross_max : GrossMaxArgs,
     output : {Absent, "chart.png"}]

Missing(av, f) ==
    IF f \in INT_TYPED THEN av[f].kind = "absent" ELSE av[f] = Absent

\* parser.error(): a required flag is missing, or int() raised on a value.
ParseFails(av) ==
    \/ \E f \in REQUIRED : Missing(av, f)
    \/ \E f \in INT_TYPED : av[f].kind = "not an int"

OrDefault(v, d) == IF v = Absent THEN d ELSE v
IntOrDefault(v, d) == IF v.kind = "int" THEN v.val ELSE d

\* The namespace parse_args returns.
Namespace(av) ==
    [parsed |-> TRUE,
     socsec_base_min |-> av.socsec_base_min.val,
     socsec_base_max |-> av.socsec_base_max.val,
     year |-> av.year,
     citizen |-> av.citizen,
     gross_min |-> IntOrDefault(av.gross_min, DEFAULT_GROSS_MIN),
     gross_max |-> IntOrDefault(av.gross_max, DEFAULT_GROSS_MAX),
     output |-> OrDefault(av.output, DEFAULT_OUTPUT)]

USAGE_EXIT == 2

\* args = parser.parse_args(): on failure argparse prints the usage and
\* raises SystemExit(2); nothing below line 64 runs.
parse_args ==
    /\ pc = "parse_args"
    /\ IF ParseFails(argv)
       THEN /\ pc' = "exited"
            /\ exit_code' = <<USAGE_EXIT>>
            /\ args' = args
       ELSE /\ pc' = "plot_func"
            /\ exit_code' = exit_code
            /\ args' = Namespace(argv)
    /\ UNCHANGED <<argv, x, y_company, y_individual, title, axis, files,
                   call, prev>>

---------------------------------------------------------------------------
(* Series generation, lines 116-132.                                       *)

SAMPLES == 200

\* linspace with endpoint=False: the step is (stop - start) / num.
linspace_without_endpoint(start, stop, num) ==
    LET step == Frac(0, stop - start, num)
    IN  [i \in 1..num |-> RAdd(RMul(RInt(i - 1), step), RInt(start))]

\* np.linspace(start, stop, num): start + i * ((stop - start) / (num - 1)).
linspace(start, stop, num) ==
    LET step == Frac(0, stop - start, num - 1)
    IN  [i \in 1..num |-> RAdd(RMul(RInt(i - 1), step), RInt(start))]

\* 1 - net / gross, kept as the fraction (gross - net) / gross with its
\* numerator and denominator exact; den = 0 is the float division by zero.
burden(net, gross) == [num |-> RSub(gross, net), den |-> gross]

plot_func ==
    /\ pc = "plot_func"
    /\ LET xs == linspace(args.gross_min, args.gross_max, SAMPLES)
       IN  /\ x' = xs
           /\ y_company' =
                  [i \in DOMAIN xs |-> burden(get_net_company(args, xs[i]), xs[i])]
           /\ y_individual' =
                  [i \in DOMAIN xs |-> burden(get_net_individual(args, xs[i]), xs[i])]
    /\ title' = <<args.year, IF args.citizen THEN "HAVE" ELSE "DO NOT HAVE">>
    /\ pc' = "render"
    /\ UNCHANGED <<argv, args, exit_code, axis, files, call, prev>>

---------------------------------------------------------------------------
(* Rendering and output, lines 134-154.                                    *)

\* plt.axis([0, args.gross_max, 0, 0.5]) and the grid, labels, ticks, size.
render ==
    /\ pc = "render"
    /\ axis' = <<Zero, RInt(args.gross_max), Zero, Milli(500)>>
    /\ pc' = "savefig"
    /\ UNCHANGED <<argv, args, exit_code, x, y_company, y_individual, title,
                   files, call, prev>>

\* fig.savefig(args.output, ...): the file is written and the script ends,
\* or the write raises and the interpreter exits with status 1.
savefig ==
    /\ pc = "savefig"
    /\ \/ /\ files' = files \cup {args.output}
          /\ pc' = "done"
          /\ exit_code' = <<0>>
       \/ /\ files' = files
          /\ pc' = "exited"
          /\ exit_code' = <<1>>
    /\ UNCHANGED <<argv, args, x, y_company, y_individual, title, axis,
                   call, prev>>

Init ==
    /\ pc = "parse_args"
    /\ argv \in ArgvSet
    /\ args = NoArgs
    /\ exit_code = Running
    /\ x = <<>>
    /\ y_company = <<>>
    /\ y_individual = <<>>
    /\ title = <<>>
    /\ axis = <<>>
    /\ files = {}
    /\ call = NoCall
    /\ prev = NoCall

Next == parse_args \/ plot_func \/ render \/ savefig

Spec == Init /\ [][Next]_vars

---------------------------------------------------------------------------
(* The tax-model functions called directly, with args already parsed: the  *)
(* parameters and each call's gross are drawn from bounded sets, and each  *)
(* call records the function's locals.                                     *)

GrossStep == 500
MaxGrossSteps == 7

\* The gross values of the calls: a grid, and the values at which the
\* branches of the functions change.
GrossSet ==
    {RInt(k * GrossStep) : k \in 0..MaxGrossSteps}
        \cup {RInt(-100), RInt(650), RInt(1000), Frac(293, 7, 10),
              Frac(293, 1, 2), Frac(2999, 1, 2)}

SocSecBases == {0, LowBase, HighBase}

FnArgs ==
    [parsed : {TRUE},
     socsec_base_min : SocSecBases, socsec_base_max : SocSecBases,
     year : {"2021"}, citizen : BOOLEAN,
     gross_min : {DEFAULT_GROSS_MIN}, gross_max : {DEFAULT_GROSS_MAX},
     output : {DEFAULT_OUTPUT}]

FnUnchanged ==
    UNCHANGED <<pc, argv, args, exit_code, x, y_company, y_individual, title,
                axis, files>>

call_soc_sec_factor ==
    /\ pc = "calls"
    /\ call' = [fn |-> "soc_sec_factor", ret |-> soc_sec_factor(args)]
    /\ prev' = call
    /\ FnUnchanged

call_get_net_company ==
    /\ pc = "calls"
    /\ \E gross \in GrossSet : call' = company_locals(args, gross)
    /\ prev' = call
    /\ FnUnchanged

call_get_net_individual ==
    /\ pc = "calls"
    /\ \E gross \in GrossSet : call' = individual_locals(args, gross)
    /\ prev' = call
    /\ FnUnchanged

FnInit ==
    /\ pc = "calls"
    /\ argv = <<>>
    /\ args \in FnArgs
    /\ exit_code = Running
    /\ x = <<>>
    /\ y_company = <<>>
    /\ y_individual = <<>>
    /\ title = <<>>
    /\ axis = <<>>
    /\ files = {}
    /\ call = NoCall
    /\ prev = NoCall

FnNext == call_soc_sec_factor \/ call_get_net_company \/ call_get_net_individual

FnSpec == FnInit /\ [][FnNext]_vars

---------------------------------------------------------------------------
(* Properties of the tax-model functions, checked under FnSpec.            *)

\* r rounded to two decimals (halves up).
Round2(r) ==
    LET h == RAdd(RMul(r, RInt(100)), Frac(0, 1, 2))
    IN  Frac(0, h[1], 100)

\* The parameters of the two worked scenarios.
Scenario2021 ==
    /\ ~args.citizen
    /\ args.socsec_base_min = 650
    /\ args.socsec_base_max = 3000

CompanyCallAt1000 ==
    call.fn = "get_net_company" /\ Scenario2021 /\ call.gross = RInt(1000)

IndividualCallAt1000 ==
    call.fn = "get_net_individual" /\ Scenario2021 /\ call.gross = RInt(1000)

\* The rate the claims state for each value of the citizen flag: 0.198,
\* and 0.198 + 0.08.
StatedFactor(citizen) == IF citizen THEN Milli(198 + 80) ELSE Milli(198)

ValidBases == 0 <= args.socsec_base_min /\ args.socsec_base_min <= args.socsec_base_max

\* C1, as stated: with socSecBaseMin=650, socSecBaseMax=3000, citizen=false
\* and gross=1000, get_net_company has social security 128.7, income-tax
\* base 706.3, income tax 70.63, company net 635.67 and returns a value that
\* rounds to 603.99.
C1_AsStated ==
    CompanyCallAt1000 =>
        /\ call.soc_sec = Frac(128, 7, 10)
        /\ call.income_tax_base = Frac(706, 3, 10)
        /\ call.income_tax = Frac(70, 63, 100)
        /\ call.net_company = Frac(635, 67, 100)
        /\ Round2(call.ret) = Frac(603, 99, 100)

\* C1, amended: the same intermediate values, and the returned value is
\* 635.67 * 0.95 = 603.8865, which rounds to 603.89.
C1_CompanyScenario ==
    CompanyCallAt1000 =>
        /\ call.soc_sec = Frac(128, 7, 10)
        /\ call.income_tax_base = Frac(706, 3, 10)
        /\ call.income_tax = Frac(70, 63, 100)
        /\ call.net_company = Frac(635, 67, 100)
        /\ call.ret = Frac(603, 8865, 10000)
        /\ Round2(call.ret) = Frac(603, 89, 100)

C1_Witness == CompanyCallAt1000 /\ Round2(call.ret) = Frac(603, 89, 100)

\* C2: with socSecBaseMin=650, socSecBaseMax=3000, citizen=false and
\* gross=1000, get_net_individual uses social-security base 1000, social
\* security 198, income-tax base 552, income tax 55.2 and returns 591.8.
C2_IndividualScenario ==
    IndividualCallAt1000 =>
        /\ call.soc_sec_base = RInt(1000)
        /\ call.soc_sec = RInt(198)
        /\ call.income_tax_base = RInt(552)
        /\ call.income_tax = Frac(55, 2, 10)
        /\ call.ret = Frac(591, 8, 10)

C2_Witness == IndividualCallAt1000 /\ call.ret = Frac(591, 8, 10)

\* C3: for every gross > 0 and 0 <= socSecBaseMin <= socSecBaseMax, with
\* either citizen value, get_net_company(gross) <= gross: the burden
\* 1 - net/gross is non-negative.
C3_CompanyNetAtMostGross ==
    (call.fn = "get_net_company" /\ RLt(Zero, call.gross) /\ ValidBases) =>
        /\ RLe(call.ret, call.gross)
        /\ RLe(Zero, burden(call.ret, call.gross).num)

C3_Witness ==
    /\ call.fn = "get_net_company"
    /\ RLt(Zero, call.gross)
    /\ ValidBases
    /\ args.socsec_base_min > 0
    /\ RLt(Zero, call.ret)
    /\ RLt(call.ret, call.gross)

\* C4: soc_sec_factor returns 0.148 + 0.05 = 0.198 when the citizen flag is
\* false and that sum plus 0.08 (0.278) when it is true, whatever the other
\* parameters are.
C4_SocSecFactor ==
    call.fn = "soc_sec_factor" =>
        /\ call.ret = StatedFactor(args.citizen)
        /\ call.ret = RAdd(RAdd(Milli(148), Milli(50)),
                           IF args.citizen THEN Milli(80) ELSE Zero)

C4_Witness ==
    /\ call.fn = "soc_sec_factor"
    /\ args.citizen
    /\ args.socsec_base_min > args.socsec_base_max
    /\ call.ret = Milli(278)

\* C5: in get_net_individual the social-security contribution is
\* min(gross, socSecBaseMax) * soc_sec_factor(): of two calls the one with
\* the smaller gross has the smaller or equal contribution, and for every
\* gross >= socSecBaseMax the contribution is socSecBaseMax * soc_sec_factor().
C5_IndividualSocSecCapped ==
    LET cap == RInt(args.socsec_base_max)
        f == StatedFactor(args.citizen)
    IN  /\ call.fn = "get_net_individual" =>
              /\ call.soc_sec =
                     RMul(IF RLe(call.gross, cap) THEN call.gross ELSE cap, f)
              /\ RLe(cap, call.gross) => call.soc_sec = RMul(cap, f)
        /\ ( /\ prev.fn = "get_net_individual"
             /\ call.fn = "get_net_individual"
             /\ RLe(prev.gross, call.gross) )
               => RLe(prev.soc_sec, call.soc_sec)

C5_Witness ==
    /\ prev.fn = "get_net_individual"
    /\ call.fn = "get_net_individual"
    /\ args.socsec_base_max > 0
    /\ RLe(RInt(args.socsec_base_max), prev.gross)
    /\ RLt(prev.gross, call.gross)
    /\ prev.soc_sec = call.soc_sec

\* C9: for every gross, get_net_company returns
\* (gross - socSec - (gross - 165 - socSec)*0.10 - 165) * 0.95 with
\* socSec = socSecBaseMin * soc_sec_factor(): the contribution depends
\* neither on gross nor on socSecBaseMax, and a negative result is returned
\* as it is.
C9_CompanyFormula ==
    call.fn = "get_net_company" =>
        LET socSec == RMul(RInt(args.socsec_base_min), StatedFactor(args.citizen))
            g == call.gross
            tax == RMul(RSub(RSub(g, RInt(165)), socSec), Frac(0, 10, 100))
        IN  /\ call.soc_sec = socSec
            /\ call.ret = RMul(RSub(RSub(RSub(g, socSec), tax), RInt(165)),
                               Frac(0, 95, 100))

C9_Witness ==
    /\ call.fn = "get_net_company"
    /\ RLt(call.gross, RAdd(RInt(165), call.soc_sec))
    /\ RLt(Zero, call.gross)
    /\ RLt(call.ret, Zero)

\* C10: for every gross >= 0, every socSecBaseMax >= 0 and either citizen
\* value the income-tax base of get_net_individual is non-negative, and so
\* is its income tax, whatever socSecBaseMin is; the income-tax base of
\* get_net_company is negative whenever
\* gross < 165 + socSecBaseMin * soc_sec_factor().
C10_IndividualTaxBaseNonNegative ==
    /\ ( /\ call.fn = "get_net_individual"
         /\ RLe(Zero, call.gross)
         /\ args.socsec_base_max >= 0 )
           => /\ RLe(Zero, call.income_tax_base)
              /\ RLe(Zero, call.income_tax)
    /\ ( /\ call.fn = "get_net_company"
         /\ RLt(call.gross,
                RAdd(RInt(165), RMul(RInt(args.socsec_base_min),
                                     StatedFactor(args.citizen)))) )
           => RLt(call.income_tax_base, Zero)

C10_Witness ==
    /\ prev.fn = "get_net_company"
    /\ call.fn = "get_net_individual"
    /\ prev.gross = call.gross
    /\ args.socsec_base_min > args.socsec_base_max
    /\ args.citizen
    /\ RLt(prev.income_tax_base, Zero)
    /\ RLt(Zero, call.income_tax_base)

---------------------------------------------------------------------------
(* Properties of the command-line run, checked under Spec.                 *)

Plotted == Len(x) > 0

RejectedCommandLine ==
    \/ argv.socsec_base_min.kind # "int"
    \/ argv.socsec_base_max.kind # "int"
    \/ argv.year = Absent
    \/ argv.gross_min.kind = "not an int"
    \/ argv.gross_max.kind = "not an int"

\* C7: when a required flag is missing or an int-typed flag fails
\* conversion, the run ends at argument parsing with a non-zero exit status,
\* before any net income is computed, any series generated or any file
\* written.
C7_RejectedAtParsing ==
    RejectedCommandLine =>
        /\ pc \in {"parse_args", "exited"}
        /\ pc = "exited" => Len(exit_code) = 1 /\ exit_code[1] # 0
        /\ args = NoArgs
        /\ x = <<>> /\ y_company = <<>> /\ y_individual = <<>>
        /\ files = {}

C7_Witness ==
    /\ pc = "exited"
    /\ argv.year = Absent
    /\ argv.socsec_base_min.kind = "int"
    /\ argv.socsec_base_max.kind = "int"
    /\ argv.gross_min.kind # "not an int"
    /\ argv.gross_max.kind # "not an int"
    /\ exit_code = <<2>>
    /\ files = {}

\* The income-tax bases the two functions compute at the sample x[i].
CompanyBaseAt(i) == company_locals(args, x[i]).income_tax_base
IndividualBaseAt(i) == individual_locals(args, x[i]).income_tax_base

InvertedBases == Plotted /\ args.socsec_base_min > args.socsec_base_max

=============================================================================
